---- MODULE Spec2Model ----
(***************************************************************************)
(* A model of package httpcache (src/httpcache.go): an http.RoundTripper   *)
(* that answers GET/HEAD requests from a Cache where it can.               *)
(*                                                                         *)
(* Text is modelled as a sequence of tokens (a token is one character, or  *)
(* a word that no operation of the package cuts, such as "max-age" or      *)
(* "bytes"), so that strings.Split, strings.Trim, strconv.ParseInt and     *)
(* time.ParseDuration are computed, not assumed.  A header map is a        *)
(* function from canonical header names to the list of the header's        *)
(* values, as http.Header is.                                              *)
(***************************************************************************)
EXTENDS Integers, Sequences, FiniteSets, TLC

VARIABLES
    cache,   \* MemoryCache.items: URL -> stored bytes, or NoEntry
    now,     \* the clock's reading, in seconds
    call,    \* the invocation whose result the caller holds, or Idle
    ncalls,  \* the number of invocations so far
    inflight,\* the concurrent RoundTrips: goroutine -> where it stands
    origin   \* the version of the resource at the origin server

vars == <<cache, now, call, ncalls, inflight, origin>>

-----------------------------------------------------------------------------
(* Bounds of the model.                                                    *)

\* the clock runs from 0 to MaxNow
MaxNow == 1

\* a behaviour holds at most MaxCalls invocations
MaxCalls == 2

\* a stored body has at most MaxBody bytes
MaxBody == 10

\* the text after "bytes=" of a Range header has at most MaxRangeLen characters
MaxRangeLen == 3

\* a Cache-Control directive states at most MaxSeconds seconds
MaxSeconds == 2

\* MaxProcs goroutines run RoundTrip concurrently
MaxProcs == 3

\* the origin's resource is written at most MaxWrites times
MaxWrites == 2

-----------------------------------------------------------------------------
(* Program constants.                                                      *)

stale == 0
fresh == 1
transparent == 2
XFromCache == "X-From-Cache"
rangeSeparator == "-"
rangeTypeSeparator == "="

StatusOK == 200
StatusNotModified == 304
StatusGatewayTimeout == 504

\* the least capacity of the slice ioutil.ReadAll returns
ReadAllCap == 512

-----------------------------------------------------------------------------
(* Text: package strings and strconv on token sequences.                   *)

DigitVal ==
    ("0" :> 0) @@ ("1" :> 1) @@ ("2" :> 2) @@ ("3" :> 3) @@ ("4" :> 4) @@
    ("5" :> 5) @@ ("6" :> 6) @@ ("7" :> 7) @@ ("8" :> 8) @@ ("9" :> 9)

Digits == DOMAIN DigitVal

RECURSIVE Join(_)
\* the string a token sequence spells
Join(s) == IF s = <<>> THEN "" ELSE Head(s) \o Join(Tail(s))

RECURSIVE SplitFrom(_, _, _)
\* strings.Split, with the piece read so far carried in cur
SplitFrom(s, sep, cur) ==
    IF s = <<>> THEN <<cur>>
    ELSE IF Head(s) = sep THEN <<cur>> \o SplitFrom(Tail(s), sep, <<>>)
    ELSE SplitFrom(Tail(s), sep, Append(cur, Head(s)))

\* strings.Split(s, sep) for a one-character separator: never empty
Split(s, sep) == SplitFrom(s, sep, <<>>)

RECURSIVE TrimLeft(_, _)
TrimLeft(s, cutset) ==
    IF s # <<>> /\ Head(s) \in cutset THEN TrimLeft(Tail(s), cutset) ELSE s

RECURSIVE TrimRight(_, _)
TrimRight(s, cutset) ==
    IF s # <<>> /\ s[Len(s)] \in cutset
    THEN TrimRight(SubSeq(s, 1, Len(s) - 1), cutset) ELSE s

\* strings.Trim(s, cutset)
Trim(s, cutset) == TrimRight(TrimLeft(s, cutset), cutset)

\* strings.TrimSpace(s)
TrimSpace(s) == Trim(s, {" "})

\* strings.Contains(s, c) for a one-character c
Contains(s, c) == \E i \in 1..Len(s) : s[i] = c

HasPrefix(s, c) == s # <<>> /\ Head(s) = c

HasSuffix(s, c) == s # <<>> /\ s[Len(s)] = c

RECURSIVE DecimalValue(_)
\* the value of a sequence of digits
DecimalValue(s) ==
    IF s = <<>> THEN 0
    ELSE 10 * DecimalValue(SubSeq(s, 1, Len(s) - 1)) + DigitVal[s[Len(s)]]

IsDigits(s) == s # <<>> /\ \A i \in 1..Len(s) : s[i] \in Digits

\* strconv.ParseInt(s, 10, 64): an optional sign and digits; 0 and an error
\* on anything else (values beyond int64 are outside the inputs modelled)
ParseInt(s) ==
    IF IsDigits(s) THEN [ok |-> TRUE, v |-> DecimalValue(s)]
    ELSE IF s # <<>> /\ Head(s) = "+" /\ IsDigits(Tail(s))
        THEN [ok |-> TRUE, v |-> DecimalValue(Tail(s))]
    ELSE IF s # <<>> /\ Head(s) = "-" /\ IsDigits(Tail(s))
        THEN [ok |-> TRUE, v |-> 0 - DecimalValue(Tail(s))]
    ELSE [ok |-> FALSE, v |-> 0]

\* time.ParseDuration(s) for the texts the package builds, value + "s":
\* a signed whole number of seconds; 0 and an error on anything else
ParseDuration(s) ==
    IF s # <<>> /\ s[Len(s)] = "s"
    THEN ParseInt(SubSeq(s, 1, Len(s) - 1))
    ELSE [ok |-> FALSE, v |-> 0]

RECURSIVE DigitsOf(_)
\* the decimal digits of n >= 0
DigitsOf(n) ==
    IF n < 10 THEN <<ToString(n)>>
    ELSE Append(DigitsOf(n \div 10), ToString(n % 10))

\* a time stamp in the layout time.RFC1123, t seconds after the epoch
RFC1123(t) == <<"rfc1123">> \o DigitsOf(t)

\* time.Parse(time.RFC1123, s)
ParseRFC1123(s) ==
    IF s # <<>> /\ Head(s) = "rfc1123" /\ IsDigits(Tail(s))
    THEN [ok |-> TRUE, t |-> DecimalValue(Tail(s))]
    ELSE [ok |-> FALSE, t |-> 0]

-----------------------------------------------------------------------------
(* http.Header.                                                            *)

\* http.CanonicalHeaderKey on the names the model spells in lower case
CanonicalHeaderKey(name) ==
    CASE name = "accept-language" -> "Accept-Language"
      [] name = "keep-alive" -> "Keep-Alive"
      [] name = "etag" -> "Etag"
      [] OTHER -> name

\* http.Header.Get: the header's first value, "" when it has none
Get(h, name) ==
    IF name \in DOMAIN h /\ h[name] # <<>> THEN h[name][1] ELSE <<>>

\* http.Header.Set: the header's values become the one value
Set(h, name, value) ==
    [n \in DOMAIN h \cup {name} |-> IF n = name THEN <<value>> ELSE h[n]]

\* a header map of single-valued headers, from a function name -> value
Hdr(f) == [n \in DOMAIN f |-> <<f[n]>>]

NoHeaders == [n \in {} |-> <<>>]

-----------------------------------------------------------------------------
(* Cache-Control and freshness.                                            *)

RECURSIVE ccFold(_, _)
\* the loop of parseCacheControl over the comma-separated parts
ccFold(parts, cc) ==
    IF parts = <<>> THEN cc
    ELSE LET part == Trim(Head(parts), {" "})
             keyval == Split(part, "=")
             key == Join(Trim(keyval[1], {" "}))
         IN  IF part = <<>> THEN ccFold(Tail(parts), cc)
             ELSE IF Contains(part, "=")
                 THEN ccFold(Tail(parts),
                        [k \in DOMAIN cc \cup {key} |->
                            IF k = key THEN Trim(keyval[2], {","}) ELSE cc[k]])
             ELSE ccFold(Tail(parts),
                        [k \in DOMAIN cc \cup {Join(part)} |->
                            IF k = Join(part) THEN <<>> ELSE cc[k]])

parseCacheControl(headers) ==
    ccFold(Split(Get(headers, "Cache-Control"), ","), [k \in {} |-> <<>>])

\* Date(respHeaders): the parsed Date header, or an error
Date(respHeaders) ==
    IF Get(respHeaders, "Date") = <<>> THEN [ok |-> FALSE, t |-> 0]
    ELSE ParseRFC1123(Get(respHeaders, "Date"))

\* clock.since(d)
since(d) == now - d

\* respLifetime with Expires read before max-age
respLifetime_ExpiresFirst(respHeaders, respCacheControl, date) ==
    IF Get(respHeaders, "Expires") # <<>>
    THEN LET expires == ParseRFC1123(Get(respHeaders, "Expires"))
         IN  IF expires.ok THEN expires.t - date ELSE 0
    ELSE IF "max-age" \in DOMAIN respCacheControl
        THEN ParseDuration(Append(respCacheControl["max-age"], "s")).v
    ELSE 0

\* the lifetime the response states: its max-age, else Expires - Date
respLifetime(respHeaders, respCacheControl, date) ==
    IF "max-age" \in DOMAIN respCacheControl
    THEN ParseDuration(Append(respCacheControl["max-age"], "s")).v
    ELSE IF Get(respHeaders, "Expires") # <<>>
        THEN LET expires == ParseRFC1123(Get(respHeaders, "Expires"))
             IN  IF expires.ok THEN expires.t - date ELSE 0
    ELSE 0

\* lifetime after the request's max-age has been applied
lifetimeOf(respHeaders, respCacheControl, reqCacheControl, date) ==
    IF "max-age" \in DOMAIN reqCacheControl
    THEN ParseDuration(Append(reqCacheControl["max-age"], "s")).v
    ELSE respLifetime(respHeaders, respCacheControl, date)

\* currentAge after the request's min-fresh and max-stale have been applied
currentAgeOf(reqCacheControl, date) ==
    LET age0 == since(date)
        age1 == IF "min-fresh" \in DOMAIN reqCacheControl
                THEN age0 + ParseDuration(Append(reqCacheControl["min-fresh"], "s")).v
                ELSE age0
    IN  IF "max-stale" \in DOMAIN reqCacheControl
        THEN age1 - ParseDuration(Append(reqCacheControl["max-stale"], "s")).v
        ELSE age1

\* a getFreshness that reads max-stale without a value as zero seconds
getFreshness_MaxStaleAsZero(respHeaders, reqHeaders) ==
    LET respCacheControl == parseCacheControl(respHeaders)
        reqCacheControl == parseCacheControl(reqHeaders)
        date == Date(respHeaders)
    IN  IF "no-cache" \in DOMAIN reqCacheControl THEN transparent
        ELSE IF "no-cache" \in DOMAIN respCacheControl THEN stale
        ELSE IF "only-if-cached" \in DOMAIN reqCacheControl THEN fresh
        ELSE IF ~date.ok THEN stale
        ELSE IF lifetimeOf(respHeaders, respCacheControl, reqCacheControl, date.t)
                    > currentAgeOf(reqCacheControl, date.t) THEN fresh
        ELSE stale

getFreshness(respHeaders, reqHeaders) ==
    LET respCacheControl == parseCacheControl(respHeaders)
        reqCacheControl == parseCacheControl(reqHeaders)
        date == Date(respHeaders)
    IN  IF "no-cache" \in DOMAIN reqCacheControl THEN transparent
        ELSE IF "no-cache" \in DOMAIN respCacheControl THEN stale
        ELSE IF "only-if-cached" \in DOMAIN reqCacheControl THEN fresh
        ELSE IF ~date.ok THEN stale
        ELSE IF "max-stale" \in DOMAIN reqCacheControl
                /\ reqCacheControl["max-stale"] = <<>> THEN fresh
        ELSE IF lifetimeOf(respHeaders, respCacheControl, reqCacheControl, date.t)
                    > currentAgeOf(reqCacheControl, date.t) THEN fresh
        ELSE stale

-----------------------------------------------------------------------------
(* Vary, end-to-end headers, storability.                                  *)

RECURSIVE trimAll(_)
trimAll(fields) ==
    IF fields = <<>> THEN <<>>
    ELSE <<TrimSpace(Head(fields))>> \o trimAll(Tail(fields))

RECURSIVE commaSepOf(_)
\* the loop of headerAllCommaSepValues over the header's values
commaSepOf(values) ==
    IF values = <<>> THEN <<>>
    ELSE trimAll(Split(Head(values), ",")) \o commaSepOf(Tail(values))

headerAllCommaSepValues(headers, name) ==
    IF CanonicalHeaderKey(name) \in DOMAIN headers
    THEN commaSepOf(headers[CanonicalHeaderKey(name)])
    ELSE <<>>

varyMatches(cachedResp, req) ==
    LET varied == headerAllCommaSepValues(cachedResp.header, "Vary")
    IN  \A i \in 1..Len(varied) :
            LET header == CanonicalHeaderKey(Join(varied[i]))
            IN  ~(header # ""
                  /\ Get(req.header, header)
                        # Get(cachedResp.header, "X-Varied-" \o header))

\* the headers that are always hop-by-hop
hopByHopHeaders ==
    {"Connection", "Keep-Alive", "Proxy-Authenticate", "Proxy-Authorization",
     "Te", "Trailers", "Transfer-Encoding", "Upgrade"}

\* the names of the response's headers that are not hop-by-hop
getEndToEndHeaders(respHeaders) ==
    LET extras == Split(Get(respHeaders, "Connection"), ",")
        listed == {CanonicalHeaderKey(Join(extras[i])) :
                      i \in {j \in 1..Len(extras) : Trim(extras[j], {" "}) # <<>>}}
    IN  {h \in DOMAIN respHeaders : h \notin hopByHopHeaders \cup listed}

canStore(reqCacheControl, respCacheControl) ==
    /\ "no-store" \notin DOMAIN respCacheControl
    /\ "no-store" \notin DOMAIN reqCacheControl

-----------------------------------------------------------------------------
(* Requests, responses, and the bytes of a stored response.                *)

NoResp == [status |-> 0, header |-> NoHeaders, body |-> <<>>]

\* the results of a call: a response, an error, or a run-time panic
RespResult(resp) == [kind |-> "resp", resp |-> resp, err |-> ""]
ErrResult(err) == [kind |-> "err", resp |-> NoResp, err |-> err]
NilResult == [kind |-> "nil", resp |-> NoResp, err |-> ""]
PanicResult(why) == [kind |-> "panic", resp |-> NoResp, err |-> why]

\* bytes in the store that are no HTTP response
Garbage == [wire |-> "garbage", status |-> 0, header |-> NoHeaders, body |-> <<>>]

\* httputil.DumpResponse(resp, false): status line and header block only
DumpResponse_NoBody(resp) ==
    [wire |-> "http", status |-> resp.status, header |-> resp.header,
     body |-> <<>>]

\* httputil.DumpResponse(resp, true): status line, header block, body
DumpResponse(resp) ==
    [wire |-> "http", status |-> resp.status, header |-> resp.header,
     body |-> resp.body]

\* http.ReadResponse(r, req): the answer to a HEAD request, and a 1xx, 204
\* or 304 response, is read without a body
ReadResponse(bytes, req) ==
    IF bytes.wire # "http" THEN ErrResult("malformed HTTP response")
    ELSE RespResult(
            [status |-> bytes.status, header |-> bytes.header,
             body |-> IF req.method = "HEAD"
                         \/ bytes.status \in {204, StatusNotModified}
                      THEN <<>> ELSE bytes.body])

\* MemoryCache.Set
CacheSet(c, key, bytes) ==
    [k \in DOMAIN c \cup {key} |-> IF k = key THEN bytes ELSE c[k]]

\* MemoryCache.Delete
CacheDelete(c, key) == [k \in DOMAIN c \ {key} |-> c[k]]

cacheKey(req) == req.url

cloneRequest(r) ==
    [method |-> r.method, url |-> r.url,
     header |-> [k \in DOMAIN r.header |-> r.header[k]]]

\* a cloneRequest whose clone keeps the Header map of the caller's request
cloneHeaderMap_Shared(r) == "caller"

\* the Header map the clone of r refers to: cloneRequest makes a map of its
\* own for it
cloneHeaderMap(r) == "clone"

\* the caller's request after a RoundTrip that sent the requests of sent:
\* RoundTrip writes headers to the Header map of its clone only
callerAfter(r, sent) ==
    LET written == IF sent = <<>> THEN r.header ELSE sent[Len(sent)].header
        maps == [id \in {"caller", "clone"} |->
                    IF id = cloneHeaderMap(r) THEN written ELSE r.header]
    IN  [r EXCEPT !.header = maps["caller"]]

\* the bytes of the buffer ioutil.ReadAll returned for body, up to offset n:
\* the spare capacity behind the body holds zero bytes
bufferUpTo(body, n) ==
    [i \in 1..n |-> IF i <= Len(body) THEN body[i] ELSE "NUL"]

\* body[start:end] of a Go slice (0 <= start <= end <= cap(body), or a panic)
sliceBody(body, start, end) ==
    IF start < 0 \/ start > end \/ end > ReadAllCap
    THEN [ok |-> FALSE, bytes |-> <<>>]
    ELSE [ok |-> TRUE, bytes |-> SubSeq(bufferUpTo(body, end), start + 1, end)]

\* rangeRequestStart and rangeRequestEnd of CachedResponse for one range
rangeBounds(rangeValue, bodyLen) ==
    LET rangeList == Split(rangeValue, rangeSeparator)
    IN  IF HasPrefix(rangeValue, rangeSeparator)
        THEN LET end == ParseInt(rangeList[2])
             IN  IF ~end.ok THEN [kind |-> "err", start |-> 0, end |-> 0]
                 ELSE [kind |-> "ok", start |-> bodyLen - end.v, end |-> bodyLen]
        ELSE IF HasSuffix(rangeValue, rangeSeparator)
        THEN LET start == ParseInt(rangeList[1])
             IN  IF ~start.ok THEN [kind |-> "err", start |-> 0, end |-> 0]
                 ELSE [kind |-> "ok", start |-> start.v, end |-> bodyLen]
        ELSE IF Len(rangeList) < 2
            THEN [kind |-> "panic", start |-> 0, end |-> 0]
        ELSE [kind |-> "ok", start |-> ParseInt(rangeList[1]).v,
              end |-> ParseInt(rangeList[2]).v]

\* CachedResponse, from the Range header on
rangeResponse(resp, rangeRaw) ==
    LET tmp == Split(rangeRaw, rangeTypeSeparator)
    IN  IF Len(tmp) < 2 THEN PanicResult("index out of range")
        ELSE IF tmp[1] # <<"bytes">> THEN RespResult(resp)
        ELSE
        LET rangeValue == IF Contains(tmp[2], ",")
                          THEN Split(tmp[2], ",")[1] ELSE tmp[2]
            bounds == rangeBounds(rangeValue, Len(resp.body))
            slice == sliceBody(resp.body, bounds.start, bounds.end)
        IN  IF bounds.kind = "panic" THEN PanicResult("index out of range")
            ELSE IF bounds.kind = "err" THEN ErrResult("strconv.ParseInt")
            ELSE IF bounds.start >= bounds.end
                THEN ErrResult("non valid ranges specified in range request")
            ELSE IF ~slice.ok THEN PanicResult("slice bounds out of range")
            ELSE RespResult([resp EXCEPT !.body = slice.bytes])

CachedResponse(c, req) ==
    IF cacheKey(req) \notin DOMAIN c THEN NilResult
    ELSE LET read == ReadResponse(c[cacheKey(req)], req)
         IN  IF read.kind = "err"
             THEN ErrResult("error loading response from cache")
             ELSE IF Get(req.header, "Range") = <<>> THEN read
             ELSE rangeResponse(read.resp, Get(req.header, "Range"))

-----------------------------------------------------------------------------
(* Transport.RoundTrip.                                                    *)

\* Transport.MarkCachedResponses, as NewTransport sets it
MarkCachedResponses == TRUE

newGatewayTimeoutResponse(req) ==
    [status |-> StatusGatewayTimeout, header |-> NoHeaders, body |-> <<>>]

\* the stale branch: validators of the cached response set on the request
addValidators(cachedResp, req) ==
    LET etag == Get(cachedResp.header, "Etag")
        h1 == IF etag # <<>> /\ Get(req.header, "Etag") = <<>>
              THEN Set(req.header, "If-None-Match", etag) ELSE req.header
        lastModified == Get(cachedResp.header, "Last-Modified")
        h2 == IF lastModified # <<>> /\ Get(req.header, "Last-Modified") = <<>>
              THEN Set(h1, "If-Modified-Since", lastModified) ELSE h1
    IN  [req EXCEPT !.header = h2]

\* a 304 branch that returns the cached response with its own headers
mergeNotModified_KeepCachedHeaders(cachedResp, resp) ==
    [status |-> StatusOK, header |-> cachedResp.header, body |-> cachedResp.body]

\* the 304 branch: the cached response with the end-to-end headers of the
\* 304 in place of its own, and status 200
mergeNotModified(cachedResp, resp) ==
    LET endToEndHeaders == getEndToEndHeaders(resp.header)
    IN  [status |-> StatusOK,
         header |-> [h \in DOMAIN cachedResp.header \cup endToEndHeaders |->
                        IF h \in endToEndHeaders THEN resp.header[h]
                        ELSE cachedResp.header[h]],
         body |-> cachedResp.body]

RECURSIVE snapshotVaried(_, _, _)
\* the loop that sets X-Varied-<Name> on the response to be stored
snapshotVaried(varyKeys, reqHeader, respHeader) ==
    IF varyKeys = <<>> THEN respHeader
    ELSE LET varyKey == CanonicalHeaderKey(Join(Head(varyKeys)))
             reqValue == Get(reqHeader, varyKey)
         IN  snapshotVaried(Tail(varyKeys), reqHeader,
                IF reqValue # <<>>
                THEN Set(respHeader, "X-Varied-" \o varyKey, reqValue)
                ELSE respHeader)

\* the end of RoundTrip: store resp, or delete the entry, and return resp
storeOrDelete(c, req, resp, sent) ==
    IF canStore(parseCacheControl(req.header), parseCacheControl(resp.header))
    THEN LET stored ==
                [resp EXCEPT !.header =
                    snapshotVaried(headerAllCommaSepValues(resp.header, "Vary"),
                                   req.header, resp.header)]
         IN  [cache |-> CacheSet(c, cacheKey(req), DumpResponse(stored)),
              sent |-> sent, res |-> RespResult(stored)]
    ELSE [cache |-> CacheDelete(c, cacheKey(req)), sent |-> sent,
          res |-> RespResult(resp)]

\* RoundTrip after the transport has answered a request sent with a cached
\* response at hand
afterTransport(c, req, cachedResp, answer) ==
    IF answer.kind = "resp" /\ req.method = "GET"
       /\ answer.resp.status = StatusNotModified
    THEN storeOrDelete(c, req, mergeNotModified(cachedResp, answer.resp), <<req>>)
    ELSE IF answer.kind = "err"
        THEN [cache |-> CacheDelete(c, cacheKey(req)), sent |-> <<req>>,
              res |-> answer]
    ELSE storeOrDelete(IF answer.resp.status # StatusOK
                       THEN CacheDelete(c, cacheKey(req)) ELSE c,
                       req, answer.resp, <<req>>)

\* a hit branch that revalidates a fresh response instead of returning it
withCached_RevalidateFresh(c, req, cached, answer) ==
    LET cachedResp ==
            IF MarkCachedResponses
            THEN [cached EXCEPT !.header = Set(cached.header, XFromCache, <<"1">>)]
            ELSE cached
        freshness == getFreshness(cachedResp.header, req.header)
    IN  IF ~varyMatches(cachedResp, req)
        THEN afterTransport(c, req, cachedResp, answer)
        ELSE IF freshness = fresh \/ freshness = stale
            THEN afterTransport(c, addValidators(cachedResp, req), cachedResp, answer)
        ELSE afterTransport(c, req, cachedResp, answer)

\* RoundTrip with a cached response: answer is what the transport returns
\* if it is called
withCached(c, req, cached, answer) ==
    LET cachedResp ==
            IF MarkCachedResponses
            THEN [cached EXCEPT !.header = Set(cached.header, XFromCache, <<"1">>)]
            ELSE cached
        freshness == getFreshness(cachedResp.header, req.header)
    IN  IF ~varyMatches(cachedResp, req)
        THEN afterTransport(c, req, cachedResp, answer)
        ELSE IF freshness = fresh
            THEN [cache |-> c, sent |-> <<>>, res |-> RespResult(cachedResp)]
        ELSE IF freshness = stale
            THEN afterTransport(c, addValidators(cachedResp, req), cachedResp, answer)
        ELSE afterTransport(c, req, cachedResp, answer)

\* RoundTrip without a cached response
withoutCached(c, req, answer) ==
    IF "only-if-cached" \in DOMAIN parseCacheControl(req.header)
    THEN storeOrDelete(c, req, newGatewayTimeoutResponse(req), <<>>)
    ELSE IF answer.kind = "err"
        THEN [cache |-> c, sent |-> <<req>>, res |-> answer]
    ELSE storeOrDelete(c, req, answer.resp, <<req>>)

\* a RoundTrip that does not invalidate the entry of a non-GET/HEAD request
RoundTrip_NoInvalidate(c, r, answer) ==
    LET req == cloneRequest(r)
        cacheableMethod == req.method = "GET" \/ req.method = "HEAD"
        cached == IF cacheableMethod THEN CachedResponse(c, req) ELSE NilResult
    IN  IF ~cacheableMethod
        THEN [cache |-> c, sent |-> <<req>>, res |-> answer]
        ELSE IF cached.kind = "panic"
            THEN [cache |-> c, sent |-> <<>>, res |-> cached]
        ELSE IF cached.kind = "resp"
            THEN withCached(c, req, cached.resp, answer)
        ELSE withoutCached(c, req, answer)

\* Transport.RoundTrip(r) on the store c: the store it leaves, the requests
\* it sent to the transport, and what it returns
RoundTrip(c, r, answer) ==
    LET req == cloneRequest(r)
        cacheableMethod == req.method = "GET" \/ req.method = "HEAD"
        cached == IF cacheableMethod THEN CachedResponse(c, req) ELSE NilResult
    IN  IF ~cacheableMethod
        THEN [cache |-> CacheDelete(c, cacheKey(req)), sent |-> <<req>>,
              res |-> answer]
        ELSE IF cached.kind = "panic"
            THEN [cache |-> c, sent |-> <<>>, res |-> cached]
        ELSE IF cached.kind = "resp"
            THEN withCached(c, req, cached.resp, answer)
        ELSE withoutCached(c, req, answer)

-----------------------------------------------------------------------------
(* The environment: callers' requests and the transport's answers.         *)

URLs == {"/r"}

Methods == {"GET", "HEAD", "POST"}

\* the header maps with one of the headers in choices, a set of
\* <<name, value>> pairs
OneHeader(choices) == {Set(NoHeaders, p[1], p[2]) : p \in choices}

\* the header maps with two of the headers in choices, of different names
TwoHeaders(choices) ==
    {Set(Set(NoHeaders, pq[1][1], pq[1][2]), pq[2][1], pq[2][2]) :
        pq \in {x \in choices \X choices : x[1][1] # x[2][1]}}

ReqHeaderChoices ==
    {<<"Cache-Control", <<"no-store">>>>,
     <<"Cache-Control", <<"only-if-cached">>>>,
     <<"Cache-Control", <<"no-cache">>>>,
     <<"Accept-Language", <<"en">>>>,
     <<"Accept-Language", <<"fr">>>>,
     <<"If-None-Match", <<"v0">>>>,
     <<"Range", <<"bytes", "=", "1", "-">>>>}

\* a request carries none, one or two of the headers of ReqHeaderChoices
Requests ==
    {[method |-> m, url |-> u, header |-> h] :
        m \in Methods, u \in URLs,
        h \in {NoHeaders} \cup OneHeader(ReqHeaderChoices)
                \cup TwoHeaders(ReqHeaderChoices)}

RespHeaderChoices ==
    {<<"Cache-Control", <<"max-age", "=", "1">>>>,
     <<"Cache-Control", <<"no-store">>>>,
     <<"Etag", <<"v1">>>>,
     <<"Etag", <<"v2">>>>,
     <<"Last-Modified", <<"lm1">>>>,
     <<"Vary", <<"Accept-Language">>>>}

\* what the origin may answer, before the Date header and the request's
\* method are taken into account: a response carries none or one of the
\* headers of RespHeaderChoices
AnswerShapes ==
    {[status |-> st, header |-> h, body |-> <<"a", "b">>] :
        st \in {StatusOK, StatusNotModified, 404},
        h \in {NoHeaders} \cup OneHeader(RespHeaderChoices)}

\* the transport's answer to a request of method m at time t: an error, or
\* a response dated t, without a body for HEAD and for 304
Answers(m, t) ==
    {ErrResult("transport error")} \cup
    {RespResult([status |-> a.status,
                 header |-> Set(a.header, "Date", RFC1123(t)),
                 body |-> IF m = "HEAD" \/ a.status = StatusNotModified
                          THEN <<>> ELSE a.body]) : a \in AnswerShapes}

\* an origin answers 304 Not Modified only to a conditional request
AnswerFits(sent, answer) ==
    (answer.kind = "resp" /\ answer.resp.status = StatusNotModified)
        => \A i \in 1..Len(sent) :
              \/ Get(sent[i].header, "If-None-Match") # <<>>
              \/ Get(sent[i].header, "If-Modified-Since") # <<>>

NoAnswer == NilResult

\* the verdict field of a call that is no call of getFreshness
NoVerdict == 0 - 1

-----------------------------------------------------------------------------
(* The state machine.                                                      *)

\* a goroutine that runs no RoundTrip
NotStarted ==
    [pc |-> "idle", req |-> [method |-> "", url |-> "", header |-> NoHeaders],
     cached |-> NilResult, sent |-> <<>>, answer |-> NilResult,
     res |-> NilResult, wrote |-> 0, overlapped |-> FALSE]

Procs == 1..MaxProcs

NoneInFlight == [p \in Procs |-> NotStarted]

Idle ==
    [op |-> "idle", req |-> [method |-> "", url |-> "", header |-> NoHeaders],
     pre |-> [u \in {} |-> Garbage], sent |-> <<>>, answer |-> NoAnswer,
     res |-> NilResult, verdict |-> NoVerdict,
     caller |-> [method |-> "", url |-> "", header |-> NoHeaders]]

Init ==
    /\ cache = [u \in {} |-> Garbage]
    /\ now = 0
    /\ call = Idle
    /\ ncalls = 0
    /\ inflight = NoneInFlight
    /\ origin = 0

\* a caller runs Transport.RoundTrip(r) to its end
DoRoundTrip ==
    /\ call.op = "idle"
    /\ ncalls < MaxCalls
    /\ ncalls' = ncalls + 1
    /\ \E r \in Requests : \E answer \in Answers(r.method, now) :
          \E out \in {RoundTrip(cache, r, answer)} :
              /\ AnswerFits(out.sent, answer)
              /\ cache' = out.cache
              /\ call' = [op |-> "RoundTrip", req |-> r, pre |-> cache,
                          sent |-> out.sent,
                          answer |-> IF out.sent = <<>> THEN NoAnswer ELSE answer,
                          res |-> out.res, verdict |-> NoVerdict,
                          caller |-> callerAfter(r, out.sent)]
    /\ UNCHANGED <<now, inflight, origin>>

\* the caller is done with the result
Return ==
    /\ call.op # "idle"
    /\ call' = Idle
    /\ UNCHANGED <<cache, now, ncalls, inflight, origin>>

\* time passes between calls
Tick ==
    /\ call.op = "idle"
    /\ now < MaxNow
    /\ now' = now + 1
    /\ UNCHANGED <<cache, call, ncalls, inflight, origin>>

\* another user of the store sets bytes that are no HTTP response
SetForeign ==
    /\ call.op = "idle"
    /\ \E u \in URLs : cache' = CacheSet(cache, u, Garbage)
    /\ UNCHANGED <<now, call, ncalls, inflight, origin>>

Next == DoRoundTrip \/ Return \/ Tick \/ SetForeign

Spec == Init /\ [][Next]_vars

-----------------------------------------------------------------------------
(* CachedResponse on its own: every Range text against a stored body.      *)

Letters == <<"a", "b", "c", "d", "e", "f", "g", "h", "i", "j">>

\* the body of n bytes: "abcdefghij" for n = 10
Body(n) == [i \in 1..n |-> Letters[((i - 1) % Len(Letters)) + 1]]

RangeAlphabet == Digits \cup {"-", ",", "x"}

RECURSIVE Texts(_, _)
\* the token sequences over alphabet of length at most n
Texts(alphabet, n) ==
    IF n = 0 THEN {<<>>}
    ELSE LET shorter == Texts(alphabet, n - 1)
         IN  shorter \cup {Append(t, a) : t \in shorter, a \in alphabet}

\* Range header values: unit bytes with every text, another unit, and a
\* value without the separator of unit and ranges
RangeHeaders ==
    {<<"bytes", "=">> \o v : v \in Texts(RangeAlphabet, MaxRangeLen)}
        \cup {<<"items", "=", "0", "-", "1">>, <<"bytes">>}

\* a store that holds a 200 response with a body of n bytes
StoreWithBody(n) ==
    [u \in URLs |->
        DumpResponse([status |-> StatusOK,
                      header |-> Set(NoHeaders, "Date", RFC1123(0)),
                      body |-> Body(n)])]

InitRange ==
    /\ cache \in {StoreWithBody(n) : n \in 0..MaxBody}
    /\ now = 0
    /\ call = Idle
    /\ ncalls = 0
    /\ inflight = NoneInFlight
    /\ origin = 0

\* a caller runs CachedResponse(c, req) for a GET with a Range header
DoCachedResponse ==
    /\ call.op = "idle"
    /\ \E u \in URLs, range \in RangeHeaders :
          LET req == [method |-> "GET", url |-> u,
                      header |-> Set(NoHeaders, "Range", range)]
          IN  call' = [op |-> "CachedResponse", req |-> req, pre |-> cache,
                       sent |-> <<>>, answer |-> NoAnswer,
                       res |-> CachedResponse(cache, req), verdict |-> NoVerdict,
                       caller |-> req]
    /\ UNCHANGED <<cache, now, ncalls, inflight, origin>>

NextRange == DoCachedResponse \/ Return

SpecRange == InitRange /\ [][NextRange]_vars

-----------------------------------------------------------------------------
(* getFreshness on its own: directives, Date and Expires against the clock.*)

\* the values a directive may carry: seconds, text that is no number, nothing
DurationTexts == {DigitsOf(n) : n \in 0..MaxSeconds} \cup {<<"x">>, <<>>}

ReqDirectives ==
    {<<"no-cache">>, <<"only-if-cached">>, <<"max-stale">>}
        \cup {<<d, "=">> \o v :
                 d \in {"max-age", "min-fresh", "max-stale"}, v \in DurationTexts}

RespDirectives ==
    {<<"no-cache">>} \cup {<<"max-age", "=">> \o v : v \in DurationTexts}

\* Cache-Control headers of none, one or two directives
ControlHeaders(directives) ==
    {NoHeaders}
        \cup {Set(NoHeaders, "Cache-Control", d) : d \in directives}
        \cup {Set(NoHeaders, "Cache-Control", d \o <<",", " ">> \o e) :
                 d \in directives, e \in directives}

\* the texts of a Date or Expires header: none, a time, or no time
TimeTexts(last) == {<<>>, <<"junk">>} \cup {RFC1123(t) : t \in 0..last}

WithHeader(h, name, value) == IF value = <<>> THEN h ELSE Set(h, name, value)

FreshReqHeaders == ControlHeaders(ReqDirectives)

FreshRespHeaders ==
    {WithHeader(WithHeader(h, "Date", d), "Expires", e) :
        h \in {NoHeaders} \cup {Set(NoHeaders, "Cache-Control", x) : x \in RespDirectives},
        d \in TimeTexts(MaxNow), e \in TimeTexts(MaxNow + 1)}

\* getFreshness(respHeaders, reqHeaders) is evaluated
DoGetFreshness ==
    /\ call.op = "idle"
    /\ \E reqHeaders \in FreshReqHeaders, respHeaders \in FreshRespHeaders :
          call' = [op |-> "getFreshness",
                   req |-> [method |-> "GET", url |-> "/r", header |-> reqHeaders],
                   pre |-> cache, sent |-> <<>>,
                   answer |-> RespResult([status |-> StatusOK,
                                          header |-> respHeaders, body |-> <<>>]),
                   res |-> NilResult,
                   verdict |-> getFreshness(respHeaders, reqHeaders),
                   caller |-> [method |-> "GET", url |-> "/r",
                               header |-> reqHeaders]]
    /\ UNCHANGED <<cache, now, ncalls, inflight, origin>>

NextFresh == DoGetFreshness \/ Return \/ Tick

SpecFresh == Init /\ [][NextFresh]_vars

-----------------------------------------------------------------------------
(* The 304 merge on its own: stale entries against every 304 of the origin.*)

\* the header maps that extend h by any of the headers in choices, a set of
\* <<name, value>> pairs of different names
RECURSIVE Extensions(_, _)
Extensions(h, choices) ==
    IF choices = {} THEN {h}
    ELSE LET p == CHOOSE x \in choices : TRUE
             rest == Extensions(h, choices \ {p})
         IN  rest \cup {Set(g, p[1], p[2]) : g \in rest}

\* the Connection header values of a 304: one token, or a list with or
\* without a space after the comma
ConnectionValues ==
    {<<"Etag">>, <<"etag">>,
     <<"keep-alive", ",", "Etag">>,
     <<"keep-alive", ",", " ", "Etag">>,
     <<"Etag", ",", " ", "keep-alive">>}

\* stores that hold a stale 200 response with validators
MergeStores ==
    {[u \in URLs |->
        DumpResponse([status |-> StatusOK, header |-> h, body |-> <<"a", "b">>])] :
        h \in Extensions(Hdr([Date |-> RFC1123(0), Etag |-> <<"v1">>]),
                         {<<"Keep-Alive", <<"old">>>>,
                          <<"Last-Modified", <<"lm1">>>>})}

\* the 304 responses of the origin, with or without a Connection header
NotModifiedAnswers ==
    {RespResult([status |-> StatusNotModified, header |-> g, body |-> <<>>]) :
        g \in UNION {{h} \cup {Set(h, "Connection", c) : c \in ConnectionValues} :
                h \in Extensions(Hdr([Date |-> RFC1123(0)]),
                                 {<<"Etag", <<"v2">>>>,
                                  <<"Keep-Alive", <<"new">>>>,
                                  <<"Last-Modified", <<"lm2">>>>})}}

InitMerge ==
    /\ cache \in MergeStores
    /\ now = 0
    /\ call = Idle
    /\ ncalls = 0
    /\ inflight = NoneInFlight
    /\ origin = 0

\* a caller runs RoundTrip for a GET and the origin answers 304
DoRevalidate ==
    /\ call.op = "idle"
    /\ ncalls < MaxCalls
    /\ ncalls' = ncalls + 1
    /\ \E u \in URLs, answer \in NotModifiedAnswers :
          \E out \in {RoundTrip(cache, [method |-> "GET", url |-> u,
                                        header |-> NoHeaders], answer)} :
              /\ AnswerFits(out.sent, answer)
              /\ cache' = out.cache
              /\ call' = [op |-> "RoundTrip",
                          req |-> [method |-> "GET", url |-> u,
                                   header |-> NoHeaders],
                          pre |-> cache, sent |-> out.sent,
                          answer |-> IF out.sent = <<>> THEN NoAnswer ELSE answer,
                          res |-> out.res, verdict |-> NoVerdict,
                          caller |-> callerAfter([method |-> "GET", url |-> u,
                                                  header |-> NoHeaders], out.sent)]
    /\ UNCHANGED <<now, inflight, origin>>

NextMerge == DoRevalidate \/ Return

SpecMerge == InitMerge /\ [][NextMerge]_vars

-----------------------------------------------------------------------------
(* Concurrent RoundTrips: every call of the Cache and the call of the       *)
(* transport is a step of its own; MemoryCache's mutex makes each Get, Set  *)
(* and Delete atomic.                                                       *)

\* a RoundTrip that leaves the entry in the store when it starts a non-GET/HEAD
startRoundTrip_NoInvalidate(c, r) ==
    LET req == cloneRequest(r)
        probe == RoundTrip(c, r, ErrResult("not called"))
    IN  IF req.method \notin {"GET", "HEAD"}
        THEN [cache |-> c, sent |-> <<req>>, cached |-> NilResult,
              res |-> NilResult]
        ELSE IF probe.sent = <<>>
            THEN [cache |-> probe.cache, sent |-> <<>>,
                  cached |-> CachedResponse(c, req), res |-> probe.res]
        ELSE [cache |-> c, sent |-> probe.sent,
              cached |-> CachedResponse(c, req), res |-> NilResult]

\* RoundTrip up to its call of the transport: the store it leaves, the
\* request it is about to send (none when it returns without the transport),
\* the cached response it holds, and what it returns if it returns here
startRoundTrip(c, r) ==
    LET req == cloneRequest(r)
        probe == RoundTrip(c, r, ErrResult("not called"))
    IN  IF req.method \notin {"GET", "HEAD"}
        THEN [cache |-> CacheDelete(c, cacheKey(req)), sent |-> <<req>>,
              cached |-> NilResult, res |-> NilResult]
        ELSE IF probe.sent = <<>>
            THEN [cache |-> probe.cache, sent |-> <<>>,
                  cached |-> CachedResponse(c, req), res |-> probe.res]
        ELSE [cache |-> c, sent |-> probe.sent,
              cached |-> CachedResponse(c, req), res |-> NilResult]

\* RoundTrip from the transport's answer on, on the store as it is by then
finishRoundTrip(c, r, cached, answer) ==
    LET req == cloneRequest(r)
    IN  IF req.method \notin {"GET", "HEAD"}
        THEN [cache |-> c, sent |-> <<req>>, res |-> answer]
        ELSE IF cached.kind = "resp"
            THEN withCached(c, req, cached.resp, answer)
        ELSE withoutCached(c, req, answer)

\* the ETag of a version of the resource
VersionTag(version) == <<"v">> \o DigitsOf(version)

\* the origin's answer to a request when the resource is at version: 304 to
\* a request whose If-None-Match names the version, else 200 with the
\* version as the body
OriginAnswer(version, req) ==
    IF Get(req.header, "If-None-Match") = VersionTag(version)
    THEN RespResult([status |-> StatusNotModified,
                     header |-> Hdr([Date |-> RFC1123(now),
                                     Etag |-> VersionTag(version)]),
                     body |-> <<>>])
    ELSE RespResult([status |-> StatusOK,
                     header |-> Hdr([Date |-> RFC1123(now),
                                     Etag |-> VersionTag(version)]),
                     body |-> DigitsOf(version)])

ConcRequests ==
    {[method |-> m, url |-> u, header |-> NoHeaders] :
        m \in {"GET", "POST"}, u \in URLs}

\* goroutine q is between the start and the return of a GET or HEAD RoundTrip
Reading(q) ==
    /\ inflight[q].pc \in {"call", "store"}
    /\ inflight[q].req.method \in {"GET", "HEAD"}

\* goroutine q is between the start and the return of another RoundTrip
Writing(q) ==
    /\ inflight[q].pc \in {"call", "store"}
    /\ inflight[q].req.method \notin {"GET", "HEAD"}

\* goroutine p enters RoundTrip and runs it up to the call of the transport
Begin(p) ==
    /\ inflight[p].pc = "idle"
    /\ \E r \in ConcRequests : \E st \in {startRoundTrip(cache, r)} :
          /\ cache' = st.cache
          /\ inflight' =
                [q \in Procs |->
                    IF q = p
                    THEN [pc |-> IF st.sent = <<>> THEN "done" ELSE "call",
                          req |-> r, cached |-> st.cached, sent |-> st.sent,
                          answer |-> NilResult, res |-> st.res, wrote |-> 0,
                          overlapped |-> r.method = "POST"
                                           /\ \E o \in Procs : Reading(o)]
                    ELSE IF r.method = "GET" /\ Writing(q)
                        THEN [inflight[q] EXCEPT !.overlapped = TRUE]
                    ELSE inflight[q]]
    /\ UNCHANGED <<now, call, ncalls, origin>>

\* the transport of goroutine p calls the origin: a non-GET/HEAD request
\* writes the resource, and RoundTrip returns the answer at once
CallTransport(p) ==
    /\ inflight[p].pc = "call"
    /\ IF inflight[p].req.method = "POST"
       THEN /\ origin < MaxWrites
            /\ origin' = origin + 1
            /\ inflight' = [inflight EXCEPT
                  ![p].pc = "done",
                  ![p].wrote = origin + 1,
                  ![p].answer = OriginAnswer(origin + 1, inflight[p].sent[1]),
                  ![p].res = finishRoundTrip(cache, inflight[p].req,
                                inflight[p].cached,
                                OriginAnswer(origin + 1, inflight[p].sent[1])).res]
       ELSE /\ origin' = origin
            /\ inflight' = [inflight EXCEPT
                  ![p].pc = "store",
                  ![p].answer = OriginAnswer(origin, inflight[p].sent[1])]
    /\ UNCHANGED <<cache, now, call, ncalls>>

\* goroutine p stores the answer, or deletes the entry, and returns
Store(p) ==
    /\ inflight[p].pc = "store"
    /\ \E fin \in {finishRoundTrip(cache, inflight[p].req, inflight[p].cached,
                                   inflight[p].answer)} :
          /\ cache' = fin.cache
          /\ inflight' = [inflight EXCEPT ![p].pc = "done", ![p].res = fin.res]
    /\ UNCHANGED <<now, call, ncalls, origin>>

NextConc == \E p \in Procs : Begin(p) \/ CallTransport(p) \/ Store(p)

SpecConc == Init /\ [][NextConc]_vars

-----------------------------------------------------------------------------
(* Properties of CachedResponse (checked under SpecRange).                 *)

\* the Range header of the request of the call
RangeAsked == Get(call.req.header, "Range")

\* the body stored under the key of the call before the call
StoredBody == call.pre[call.req.url].body

\* the call returned a response with these bytes as its body
Served(bytes) == call.res.kind = "resp" /\ call.res.resp.body = bytes

\* C8: for a cached body of length L, Range bytes=S-E (0 <= S <= E < L)
\* yields the bytes at offsets S through E inclusive (bytes=2-5 of
\* "abcdefghij" is "cdef"), bytes=-N (0 < N <= L) the last N bytes, bytes=S-
\* (S < L) the bytes from offset S to the end, and bytes=S-E with S > E fails.
C8_RangeSlicesInclusive ==
    call.op = "CachedResponse" =>
        LET L == Len(StoredBody)
        IN  /\ \A S, E \in 0..(L - 1) :
                  (S <= E /\ RangeAsked = <<"bytes", "=">> \o DigitsOf(S)
                                            \o <<"-">> \o DigitsOf(E))
                      => Served(SubSeq(StoredBody, S + 1, E + 1))
            /\ \A N \in 1..L :
                  RangeAsked = <<"bytes", "=", "-">> \o DigitsOf(N)
                      => Served(SubSeq(StoredBody, L - N + 1, L))
            /\ \A S \in 0..(L - 1) :
                  RangeAsked = <<"bytes", "=">> \o DigitsOf(S) \o <<"-">>
                      => Served(SubSeq(StoredBody, S + 1, L))
            /\ \A S, E \in 0..9 :
                  (S > E /\ RangeAsked = <<"bytes", "=">> \o DigitsOf(S)
                                           \o <<"-">> \o DigitsOf(E))
                      => call.res.kind = "err"

\* C9: for a Range header with unit bytes in one of the forms START-END,
\* START- and -SUFFIXLEN, if a numeric bound the form requires does not
\* parse, or the computed start >= end, CachedResponse returns an error and
\* no response.
C9_BadBoundsFail ==
    (/\ call.op = "CachedResponse"
     /\ Len(RangeAsked) >= 2
     /\ SubSeq(RangeAsked, 1, 2) = <<"bytes", "=">>) =>
        LET value == SubSeq(RangeAsked, 3, Len(RangeAsked))
            bounds == Split(value, "-")
            L == Len(StoredBody)
        IN  (~Contains(value, ",") /\ Len(bounds) = 2) =>
                LET first == ParseInt(bounds[1])
                    last == ParseInt(bounds[2])
                IN  /\ (/\ bounds[1] # <<>> /\ bounds[2] # <<>>
                        /\ (~first.ok \/ ~last.ok \/ first.v >= last.v))
                            => call.res.kind = "err"
                    /\ (/\ bounds[1] # <<>> /\ bounds[2] = <<>>
                        /\ (~first.ok \/ first.v >= L))
                            => call.res.kind = "err"
                    /\ (/\ bounds[1] = <<>> /\ bounds[2] # <<>>
                        /\ (~last.ok \/ L - last.v >= L))
                            => call.res.kind = "err"

-----------------------------------------------------------------------------
(* Properties of getFreshness (checked under SpecFresh).                   *)

\* the seconds a directive value states, zero when it is no number
SecondsOf(value) == IF IsDigits(value) THEN DecimalValue(value) ELSE 0

\* getFreshness gets as far as comparing lifetime with currentAge
ReachesComparison(reqControl, respControl, respHeaders) ==
    /\ "no-cache" \notin DOMAIN reqControl
    /\ "no-cache" \notin DOMAIN respControl
    /\ "only-if-cached" \notin DOMAIN reqControl
    /\ ParseRFC1123(Get(respHeaders, "Date")).ok
    /\ ~("max-stale" \in DOMAIN reqControl /\ reqControl["max-stale"] = <<>>)

\* lifetime as the claim states it
LifetimeStated(reqControl, respControl, respHeaders) ==
    LET date == ParseRFC1123(Get(respHeaders, "Date"))
        expires == ParseRFC1123(Get(respHeaders, "Expires"))
    IN  IF "max-age" \in DOMAIN reqControl
        THEN SecondsOf(reqControl["max-age"])
        ELSE IF "max-age" \in DOMAIN respControl
            THEN SecondsOf(respControl["max-age"])
        ELSE IF expires.ok THEN expires.t - date.t
        ELSE 0

\* currentAge as the claim states it
CurrentAgeStated(reqControl, respHeaders) ==
    (now - ParseRFC1123(Get(respHeaders, "Date")).t)
        + (IF "min-fresh" \in DOMAIN reqControl
           THEN SecondsOf(reqControl["min-fresh"]) ELSE 0)
        - (IF "max-stale" \in DOMAIN reqControl
           THEN SecondsOf(reqControl["max-stale"]) ELSE 0)

\* C10: whenever getFreshness reaches the final comparison, the verdict is
\* fresh iff lifetime > currentAge (and stale otherwise), with lifetime the
\* request's max-age, else the response's max-age, else Expires - Date, else
\* zero, and currentAge = now - Date + min-fresh - max-stale; a value that is
\* no number counts as zero.
C10_FinalComparison ==
    call.op = "getFreshness" =>
        LET reqControl == parseCacheControl(call.req.header)
            respHeaders == call.answer.resp.header
            respControl == parseCacheControl(respHeaders)
        IN  ReachesComparison(reqControl, respControl, respHeaders) =>
                call.verdict =
                    IF LifetimeStated(reqControl, respControl, respHeaders)
                          > CurrentAgeStated(reqControl, respHeaders)
                    THEN fresh ELSE stale

\* the response's max-age makes a response fresh whose Expires has passed
C10_Witness ==
    /\ call.op = "getFreshness"
    /\ LET reqControl == parseCacheControl(call.req.header)
           respHeaders == call.answer.resp.header
           respControl == parseCacheControl(respHeaders)
           date == ParseRFC1123(Get(respHeaders, "Date"))
           expires == ParseRFC1123(Get(respHeaders, "Expires"))
       IN  /\ ReachesComparison(reqControl, respControl, respHeaders)
           /\ "max-age" \notin DOMAIN reqControl
           /\ "max-age" \in DOMAIN respControl
           /\ expires.ok
           /\ expires.t - date.t <= CurrentAgeStated(reqControl, respHeaders)
           /\ call.verdict = fresh

-----------------------------------------------------------------------------
(* Properties of Transport.RoundTrip (checked under Spec).                 *)

\* a call of RoundTrip has run to its end
RoundTripDone == call.op = "RoundTrip"

CacheableCall == RoundTripDone /\ call.req.method \in {"GET", "HEAD"}

\* the bytes the store held for the request's key when the call began
StoredEntry == call.pre[cacheKey(call.req)]

\* a response with the served-from-cache mark
Marked(resp) == [resp EXCEPT !.header = Set(resp.header, XFromCache, <<"1">>)]

\* the call found a stored entry that re-parses, matches on Vary and is of
\* freshness verdict
HitOf(verdict) ==
    /\ CacheableCall
    /\ LET looked == CachedResponse(call.pre, call.req)
       IN  /\ looked.kind = "resp"
           /\ varyMatches(looked.resp, call.req)
           /\ getFreshness(Marked(looked.resp).header, call.req.header) = verdict

\* C1: for a GET or HEAD request whose stored entry is found, re-parses,
\* matches on Vary and is fresh, RoundTrip returns the stored response (the
\* entry's status and headers with the X-From-Cache mark, and the entry's
\* body as CachedResponse reads it for the request), sends nothing to the
\* transport, and leaves the store as it was.
C1_FreshHitServedFromStore ==
    HitOf(fresh) =>
        LET looked == CachedResponse(call.pre, call.req)
        IN  /\ call.sent = <<>>
            /\ cache = call.pre
            /\ call.res = RespResult(Marked(looked.resp))
            /\ call.res.resp.status = StoredEntry.status
            /\ \A h \in DOMAIN StoredEntry.header :
                  call.res.resp.header[h] = StoredEntry.header[h]
            /\ (call.req.method = "GET" /\ Get(call.req.header, "Range") = <<>>)
                  => call.res.resp.body = StoredEntry.body

\* a GET is answered with the body of a fresh stored entry
C1_Witness ==
    /\ HitOf(fresh)
    /\ call.req.method = "GET"
    /\ call.res.kind = "resp"
    /\ call.res.resp.body = <<"a", "b">>
    /\ Get(call.res.resp.header, XFromCache) = <<"1">>

\* C2: for a request that is neither GET nor HEAD, RoundTrip deletes the
\* entry of the request's key, sends the request to the transport exactly
\* once, returns the transport's response or error as it is, and writes
\* nothing to the store: afterwards the store is the store before the call
\* without that key.
C2_OtherMethodsBypass ==
    (RoundTripDone /\ call.req.method \notin {"GET", "HEAD"}) =>
        /\ Len(call.sent) = 1
        /\ call.sent[1] = call.req
        /\ call.res = call.answer
        /\ cacheKey(call.req) \notin DOMAIN cache
        /\ cache = CacheDelete(call.pre, cacheKey(call.req))

\* a POST removed an entry that was stored, and returned a response
C2_Witness ==
    /\ RoundTripDone
    /\ call.req.method = "POST"
    /\ cacheKey(call.req) \in DOMAIN call.pre
    /\ StoredEntry.wire = "http"
    /\ cacheKey(call.req) \notin DOMAIN cache
    /\ call.res.kind = "resp"

\* Cache-Control of headers carries no-store
NoStoreIn(headers) == "no-store" \in DOMAIN parseCacheControl(headers)

\* C3: after an exchange that returns a response and in which the request or
\* the response carries Cache-Control: no-store, the store holds no entry
\* for the request's key, on every path, the one answered from a cached
\* entry included.
C3_NoStoreLeavesNoEntry ==
    (RoundTripDone /\ call.res.kind = "resp"
        /\ (NoStoreIn(call.req.header) \/ NoStoreIn(call.res.resp.header)))
      => cacheKey(call.req) \notin DOMAIN cache

\* the transport answered 304 Not Modified to a GET for which CachedResponse
\* yielded a response
Revalidated304 ==
    /\ RoundTripDone
    /\ call.req.method = "GET"
    /\ CachedResponse(call.pre, call.req).kind = "resp"
    /\ call.sent # <<>>
    /\ call.answer.kind = "resp"
    /\ call.answer.resp.status = StatusNotModified

\* the names of the end-to-end headers of headers: all but the hop-by-hop
\* ones and the ones its Connection header lists
EndToEndNames(headers) ==
    {h \in DOMAIN headers :
        /\ h \notin {"Connection", "Keep-Alive", "Proxy-Authenticate",
                     "Proxy-Authorization", "Te", "Trailers",
                     "Transfer-Encoding", "Upgrade"}
        /\ \A i \in 1..Len(headerAllCommaSepValues(headers, "Connection")) :
              h # CanonicalHeaderKey(
                    Join(headerAllCommaSepValues(headers, "Connection")[i]))}

\* the returned response has status 200 and the end-to-end headers of the 304
MergedStatusAndHeaders ==
    /\ call.res.kind = "resp"
    /\ call.res.resp.status = StatusOK
    /\ \A h \in EndToEndNames(call.answer.resp.header) :
          /\ h \in DOMAIN call.res.resp.header
          /\ call.res.resp.header[h] = call.answer.resp.header[h]

VaryMismatch ==
    /\ CacheableCall
    /\ cacheKey(call.req) \in DOMAIN call.pre
    /\ ReadResponse(StoredEntry, call.req).kind = "resp"
    /\ ~varyMatches(ReadResponse(StoredEntry, call.req).resp, call.req)

\* no usable entry: none stored, or one that does not re-parse, or one that
\* does not match on Vary
NoUsableEntry ==
    \/ cacheKey(call.req) \notin DOMAIN call.pre
    \/ ReadResponse(StoredEntry, call.req).kind = "err"
    \/ VaryMismatch

\* C5: for a GET or HEAD request that declares only-if-cached and has no
\* usable entry, RoundTrip returns a synthesized 504 Gateway Timeout and the
\* transport is never invoked.
C5_OnlyIfCachedGets504 ==
    (CacheableCall
        /\ "only-if-cached" \in DOMAIN parseCacheControl(call.req.header)
        /\ NoUsableEntry)
      => /\ call.sent = <<>>
         /\ call.res.kind = "resp"
         /\ call.res.resp.status = StatusGatewayTimeout

\* C6: when the stored response's Vary names a header whose value in the
\* request differs from the X-Varied snapshot, the entry is a miss: the
\* request reaches the transport with no validator added, and the caller
\* gets the transport's error or response (its status, headers and body),
\* never the stored entry, as it is or merged.
C6_VaryMismatchIsMiss ==
    VaryMismatch =>
        /\ call.sent = <<call.req>>
        /\ call.answer.kind = "err" => call.res = call.answer
        /\ call.answer.kind = "resp" =>
              /\ call.res.kind = "resp"
              /\ call.res.resp.status = call.answer.resp.status
              /\ call.res.resp.body = call.answer.resp.body
              /\ \A h \in DOMAIN call.answer.resp.header :
                    Get(call.res.resp.header, h) = Get(call.answer.resp.header, h)

\* the value of validator the transport must see: the caller's if the caller
\* set one, else the cached response's value of its source header, if any
ValidatorStated(validator, from) ==
    IF Get(call.req.header, validator) # <<>>
    THEN Get(call.req.header, validator)
    ELSE Get(StoredEntry.header, from)

\* C7: when the cached entry is stale, the request sent to the transport
\* carries If-None-Match equal to the cached ETag and If-Modified-Since
\* equal to the cached Last-Modified, each only if the caller set no such
\* validator; a validator the caller set reaches the transport unchanged.
C7_ValidatorsOnlyIfUnset ==
    HitOf(stale) =>
        /\ Len(call.sent) = 1
        /\ Get(call.sent[1].header, "If-None-Match")
              = ValidatorStated("If-None-Match", "Etag")
        /\ Get(call.sent[1].header, "If-Modified-Since")
              = ValidatorStated("If-Modified-Since", "Last-Modified")

-----------------------------------------------------------------------------
(* max-stale without a value (checked under SpecFresh).                    *)

\* the request's directives hold max-stale with no value
MaxStaleNoValue ==
    /\ call.op = "getFreshness"
    /\ "max-stale" \in DOMAIN parseCacheControl(call.req.header)
    /\ parseCacheControl(call.req.header)["max-stale"] = <<>>

\* C11 as stated: for every combination of response headers and other
\* request directives, a request whose Cache-Control carries max-stale with
\* no value makes getFreshness return fresh.
C11_MaxStaleAlwaysFresh == MaxStaleNoValue => call.verdict = fresh

\* C11: for every combination of response headers and other request
\* directives in which neither the request nor the response carries no-cache
\* and the response has a Date header that parses, a request whose
\* Cache-Control carries max-stale with no value makes getFreshness return
\* fresh.
C11_MaxStaleFreshAfterDate ==
    (/\ MaxStaleNoValue
     /\ "no-cache" \notin DOMAIN parseCacheControl(call.req.header)
     /\ "no-cache" \notin DOMAIN parseCacheControl(call.answer.resp.header)
     /\ ParseRFC1123(Get(call.answer.resp.header, "Date")).ok)
        => call.verdict = fresh

\* max-stale without a value makes fresh a response whose lifetime is over
C11_Witness ==
    /\ MaxStaleNoValue
    /\ DOMAIN parseCacheControl(call.req.header) = {"max-stale"}
    /\ parseCacheControl(call.answer.resp.header) = [k \in {"max-age"} |-> <<"0">>]
    /\ Get(call.answer.resp.header, "Date") = RFC1123(0)
    /\ now = MaxNow
    /\ call.verdict = fresh

-----------------------------------------------------------------------------
(* More properties of Transport.RoundTrip (checked under Spec).            *)

\* the transport call of a GET or HEAD RoundTrip failed
TransportFailed ==
    /\ CacheableCall
    /\ call.sent # <<>>
    /\ call.answer.kind = "err"

\* C12: whenever the transport call of a GET/HEAD RoundTrip fails, RoundTrip
\* returns the transport's error as it is, with no response, and the store
\* holds no entry for the request's key when RoundTrip returns, whatever it
\* held before the call.
C12_FailureDeletesEntry ==
    TransportFailed =>
        /\ call.res = call.answer
        /\ cacheKey(call.req) \notin DOMAIN cache

\* the transport answered a GET with a response, and neither the request nor
\* that response carries no-store
StorableGetExchange ==
    /\ RoundTripDone
    /\ call.req.method = "GET"
    /\ call.sent # <<>>
    /\ call.answer.kind = "resp"
    /\ ~NoStoreIn(call.req.header)
    /\ ~NoStoreIn(call.answer.resp.header)

\* the entry of the request's URL read back through CachedResponse by a GET
\* without a Range header
ReadBack ==
    CachedResponse(cache, [method |-> "GET", url |-> call.req.url,
                           header |-> NoHeaders])

\* name is one of the X-Varied-<Name> headers of the Vary snapshot
IsVaried(name) ==
    \E v \in {"Accept-Language", "Cache-Control", "If-None-Match", "Range"} :
        name = "X-Varied-" \o v

\* a and b are the same headers, the X-Varied-* headers apart
SameButVaried(a, b) ==
    \A h \in (DOMAIN a \cup DOMAIN b) :
        IsVaried(h) \/ (h \in DOMAIN a /\ h \in DOMAIN b /\ a[h] = b[h])

-----------------------------------------------------------------------------
(* Bounds of the slice (checked under SpecRange).                          *)

\* C14: for every stored body and every Range header value, CachedResponse
\* completes normally with a response or an error, and whenever it slices
\* the body the offsets satisfy 0 <= start < end <= len(body): the body it
\* serves is the bytes of the stored body from start to end.
C14_SliceWithinBody ==
    call.op = "CachedResponse" =>
        /\ call.res.kind \in {"resp", "err"}
        /\ (call.res.kind = "resp" /\ Head(RangeAsked) = "bytes") =>
              \E start \in 0..Len(StoredBody), end \in 0..Len(StoredBody) :
                  /\ start < end
                  /\ call.res.resp.body = SubSeq(StoredBody, start + 1, end)

-----------------------------------------------------------------------------
(* The store after a hit (checked under Spec).                             *)

\* a GET with a Range header was answered from the cached entry: a fresh
\* hit, or an entry revalidated by a 304
RangeServedFromCache ==
    /\ RoundTripDone
    /\ call.req.method = "GET"
    /\ Get(call.req.header, "Range") # <<>>
    /\ (HitOf(fresh) \/ Revalidated304)

\* C15: after a RoundTrip of a GET with a Range header that is answered from
\* the cached entry, the body stored under the key is still the full body
\* that was stored before the call, not the slice.
C15_RangeKeepsStoredBody ==
    (RangeServedFromCache /\ cacheKey(call.req) \in DOMAIN cache)
        => cache[cacheKey(call.req)].body = StoredEntry.body

-----------------------------------------------------------------------------
(* Headers of the 304 merge (checked under SpecMerge).                     *)

\* the header h of headers, none when it has no such header
ValuesOf(headers, h) == IF h \in DOMAIN headers THEN headers[h] ELSE <<>>

\* into is the cached entry with exactly the end-to-end headers of the 304
\* copied onto it
CopiedIffEndToEnd(into) ==
    \A h \in DOMAIN call.answer.resp.header :
        IF h \in EndToEndNames(call.answer.resp.header)
        THEN ValuesOf(into, h) = call.answer.resp.header[h]
        ELSE ValuesOf(into, h) = ValuesOf(StoredEntry.header, h)

\* C16: during a 304 merge a header of the 304 is copied onto the cached
\* entry iff it is end-to-end: it is none of Connection, Keep-Alive,
\* Proxy-Authenticate, Proxy-Authorization, TE, Trailers, Transfer-Encoding,
\* Upgrade, and no token of the 304's Connection header names it, whatever
\* the token's place in the list; no hop-by-hop header of the 304 reaches
\* the returned or the stored entry.
C16_OnlyEndToEndCopied ==
    Revalidated304 =>
        /\ call.res.kind = "resp"
        /\ CopiedIffEndToEnd(call.res.resp.header)
        /\ cacheKey(call.req) \in DOMAIN cache
              => CopiedIffEndToEnd(cache[cacheKey(call.req)].header)

-----------------------------------------------------------------------------
(* What RoundTrip writes to the store (checked under Spec).                *)

\* C17: every entry RoundTrip writes to the store is a response obtained
\* from the transport, as received or merged with a cached entry: a call that
\* never invoked the transport, such as the only-if-cached miss answered by a
\* synthesized 504, leaves under the request's key nothing but what was
\* there before.
C17_OnlyTransportResponsesStored ==
    (RoundTripDone /\ call.sent = <<>> /\ cacheKey(call.req) \in DOMAIN cache)
        => /\ cacheKey(call.req) \in DOMAIN call.pre
           /\ cache[cacheKey(call.req)] = StoredEntry

\* the body the transport returns for a GET of any URL with a status that
\* carries a body
OriginBody == <<"a", "b">>

\* C18: a GET (without a Range header) answered from the store as a fresh
\* hit receives the body that the transport returned for a GET of that URL;
\* an entry written by a HEAD exchange for the URL, which has no body, is
\* never the answer to a GET.
C18_GetHitHasGetBody ==
    (/\ HitOf(fresh)
     /\ call.req.method = "GET"
     /\ Get(call.req.header, "Range") = <<>>
     /\ StoredEntry.status \in {StatusOK, 404})
        => call.res.resp.body = OriginBody

-----------------------------------------------------------------------------
(* Invalidation under concurrency (checked under SpecConc).                *)

\* the version of the resource that stored bytes hold
VersionOf(bytes) == DecimalValue(bytes.body)

\* goroutine p has returned from a non-GET/HEAD RoundTrip
WriteReturned(p) ==
    /\ inflight[p].pc = "done"
    /\ inflight[p].req.method = "POST"

\* the store holds no entry fetched before the write of goroutine p
NothingOlderThan(p) ==
    \A u \in DOMAIN cache : VersionOf(cache[u]) >= inflight[p].wrote

\* C19 as stated: under any interleaving of concurrent RoundTrips on the same
\* URL, once a non-GET/HEAD RoundTrip has returned, the store holds no entry
\* for the URL that was fetched from the origin before the write's transport
\* call.
C19_NoPreWriteContent ==
    \A p \in Procs : WriteReturned(p) => NothingOlderThan(p)

\* C19: once a non-GET/HEAD RoundTrip has returned during which no GET/HEAD
\* RoundTrip on the same URL was in progress, the store holds no entry for
\* the URL that was fetched from the origin before the write's transport
\* call.
C19_NoPreWriteContentUnlessOverlapped ==
    \A p \in Procs :
        (WriteReturned(p) /\ ~inflight[p].overlapped) => NothingOlderThan(p)

\* a write that no GET overlapped removed an entry, and a later GET stored
\* the version it wrote
C19_Witness ==
    \E p \in Procs :
        /\ WriteReturned(p)
        /\ ~inflight[p].overlapped
        /\ inflight[p].wrote = 1
        /\ \E u \in DOMAIN cache : VersionOf(cache[u]) = 1
        /\ \E q \in Procs :
              /\ inflight[q].pc = "done"
              /\ inflight[q].req.method = "GET"
              /\ inflight[q].res.resp.body = DigitsOf(0)

-----------------------------------------------------------------------------
(* The caller's request (checked under Spec).                              *)

====
